---- MODULE Spec2Model ----
(***************************************************************************)
(* gist-sync: the sync command of the extension (extension.ts), the sync   *)
(* workflow syncFilesToGist (gist-sync.ts), the configuration, file-system *)
(* and GitHub services it uses, and the status bar.                        *)
(*                                                                         *)
(* A JavaScript string is a sequence of one-character strings, so that     *)
(* replace, startsWith and path normalisation are computed character by    *)
(* character.  An Option is <<>> (none) or <<x>> (some x).  A JavaScript   *)
(* object is the sequence of its entries in own-property order.            *)
(***************************************************************************)
EXTENDS Integers, Sequences, FiniteSets, TLC

None == <<>>
Some(x) == <<x>>
IsSome(o) == o # <<>>
IsNone(o) == o = <<>>

(***************************************************************************)
(* Bounds of the model.                                                    *)
(***************************************************************************)
\* longest configured "gistSync.files" list drawn in Init
MaxFiles == 2
\* longest file name handed to toGistFilename in SpecFlatten
MaxNameLen == 4
\* handles setTimeout can give out
MaxTimers == 2

(***************************************************************************)
(* Strings.                                                                *)
(***************************************************************************)
StartsWith(s, prefix) ==
  /\ Len(s) >= Len(prefix)
  /\ SubSeq(s, 1, Len(prefix)) = prefix

\* variant: replace without the g flag, only the first "/" becomes "-"
toGistFilename_FirstOnly(filePath) ==
  [i \in 1..Len(filePath) |->
     IF filePath[i] = "/" /\ \A j \in 1..(i - 1) : filePath[j] # "/"
     THEN "-" ELSE filePath[i]]

\* gist-sync.ts: filePath.replace(/\//g, "-")
toGistFilename(filePath) ==
  [i \in 1..Len(filePath) |-> IF filePath[i] = "/" THEN "-" ELSE filePath[i]]

\* " | gist-sync", the suffix of the title file name
TitleSuffix == <<" ", "|", " ", "g", "i", "s", "t", "-", "s", "y", "n", "c">>

titleFilename(workspaceName) == workspaceName \o TitleSuffix

(***************************************************************************)
(* Paths: vscode.Uri.joinPath joins with "/" and normalises "." and "..". *)
(***************************************************************************)
RECURSIVE SplitPath(_, _)
SplitPath(s, cur) ==
  IF s = <<>> THEN <<cur>>
  ELSE IF Head(s) = "/" THEN <<cur>> \o SplitPath(Tail(s), <<>>)
  ELSE SplitPath(Tail(s), Append(cur, Head(s)))

RECURSIVE NormalizeSegments(_, _)
NormalizeSegments(segs, acc) ==
  IF segs = <<>> THEN acc
  ELSE LET h == Head(segs) IN
       IF h = <<>> \/ h = <<".">> THEN NormalizeSegments(Tail(segs), acc)
       ELSE IF h = <<".", ".">>
            THEN NormalizeSegments(Tail(segs),
                   IF acc = <<>> THEN acc ELSE SubSeq(acc, 1, Len(acc) - 1))
            ELSE NormalizeSegments(Tail(segs), Append(acc, h))

RECURSIVE JoinSegments(_)
JoinSegments(segs) ==
  IF segs = <<>> THEN <<>>
  ELSE <<"/">> \o Head(segs) \o JoinSegments(Tail(segs))

\* fsPath of vscode.Uri.joinPath(base, rel)
joinPath(base, rel) ==
  LET p == JoinSegments(NormalizeSegments(SplitPath(base \o <<"/">> \o rel, <<>>), <<>>))
  IN IF p = <<>> THEN <<"/">> ELSE p

\* file-system.ts: fullPath.startsWith(basePath)
isPathSafe(basePath, fullPath) == StartsWith(fullPath, basePath)

\* fullPath is basePath itself or lies in the directory tree below it
LiesWithin(basePath, fullPath) ==
  \/ fullPath = basePath
  \/ StartsWith(fullPath, basePath \o <<"/">>)

(***************************************************************************)
(* JavaScript objects (FileContents = Record<string, {content}>).          *)
(* Own-property order: canonical array-index keys ascending, then the      *)
(* other keys in insertion order.                                          *)
(***************************************************************************)
Digits == <<"0", "1", "2", "3", "4", "5", "6", "7", "8", "9">>

IsDigit(c) == \E d \in 1..10 : Digits[d] = c

DigitValue(c) == (CHOOSE d \in 1..10 : Digits[d] = c) - 1

\* canonical numeric string of an array index (all keys here are far below 2^32 - 1)
IsArrayIndex(k) ==
  /\ k # <<>>
  /\ \A i \in 1..Len(k) : IsDigit(k[i])
  /\ (Len(k) > 1 => k[1] # "0")

RECURSIVE IndexValue(_)
IndexValue(k) ==
  IF k = <<>> THEN 0
  ELSE IndexValue(SubSeq(k, 1, Len(k) - 1)) * 10 + DigitValue(k[Len(k)])

ObjKeys(obj) == [i \in 1..Len(obj) |-> obj[i].key]

ObjHas(obj, k) == \E i \in 1..Len(obj) : obj[i].key = k

ObjGet(obj, k) == obj[CHOOSE i \in 1..Len(obj) : obj[i].key = k].content

\* number of leading entries that stay ahead of a new key k
InsertAfter(obj, k) ==
  IF IsArrayIndex(k)
  THEN Cardinality({i \in 1..Len(obj) :
         IsArrayIndex(obj[i].key) /\ IndexValue(obj[i].key) < IndexValue(k)})
  ELSE Len(obj)

\* variant: an assignment to a key the object has is dropped
ObjSet_KeepsFirst(obj, k, content) ==
  IF ObjHas(obj, k)
  THEN obj
  ELSE LET n == InsertAfter(obj, k)
       IN SubSeq(obj, 1, n) \o <<[key |-> k, content |-> content]>>
            \o SubSeq(obj, n + 1, Len(obj))

\* obj[k] = { content }
ObjSet(obj, k, content) ==
  IF ObjHas(obj, k)
  THEN [i \in 1..Len(obj) |->
          IF obj[i].key = k THEN [key |-> k, content |-> content] ELSE obj[i]]
  ELSE LET n == InsertAfter(obj, k)
       IN SubSeq(obj, 1, n) \o <<[key |-> k, content |-> content]>>
            \o SubSeq(obj, n + 1, Len(obj))

\* { ...target, ...source }
RECURSIVE ObjSpread(_, _)
ObjSpread(target, source) ==
  IF source = <<>> THEN target
  ELSE ObjSpread(ObjSet(target, Head(source).key, Head(source).content), Tail(source))

RECURSIVE JoinKeys(_)
JoinKeys(keys) ==
  IF keys = <<>> THEN <<>>
  ELSE IF Len(keys) = 1 THEN keys[1]
  ELSE keys[1] \o <<",", " ">> \o JoinKeys(Tail(keys))

(***************************************************************************)
(* The world the extension runs in: the workspace folder, the files on    *)
(* disk, the documents the editor can show, the answers of GitHub.         *)
(***************************************************************************)
\* the workspace folder: name "w", fsPath "/w"
Folder == [name |-> <<"w">>, fsPath |-> <<"/", "w">>]
\* a second folder of a multi-root workspace: name "v", fsPath "/v"
OtherFolder == [name |-> <<"v">>, fsPath |-> <<"/", "v">>]

FileA == <<"a">>
FileNested == <<"d", "/", "a">>
FileDashed == <<"d", "-", "a">>
FileBackslash == <<"d", "\\", "a">>
FileMissing == <<"m", ".", "m", "d">>
FileSibling == <<".", ".", "/", "w", "2", "/", "a">>
FileOutside == <<".", ".", "/", "x">>
FileNumber == <<"1">>
FileTitle == titleFilename(Folder.name)
FileNote == <<"n", ".", "m", "d">>
TextFile == <<"n", ".", "t", "x", "t">>
DefaultFile == <<"T", "O", "D", "O", ".", "m", "d">>

\* the relative paths a user may list in "gistSync.files"
ListedPaths ==
  {FileA, FileNested, FileDashed, FileBackslash, FileMissing, FileSibling,
   FileOutside, FileNumber, FileTitle}

\* the files vscode.workspace.fs.readFile can read (absolute paths); every
\* other path is missing
ReadableFiles ==
  {joinPath(Folder.fsPath, p) :
     p \in {FileA, FileNested, FileDashed, FileBackslash, FileSibling, FileOutside,
            FileNumber, FileTitle, FileNote, TextFile}}

\* the bytes of a readable file, decoded by TextDecoder: the file's own text
ContentOf(fsPath) == <<"#">> \o fsPath

\* the documents the active editor may show (document.fileName)
EditorDocuments ==
  {joinPath(Folder.fsPath, p) : p \in {FileNote, TextFile, FileMissing}}

GistIds == {"g1", "g2"}
GistUrls == {"https://gist.github.com/1", "https://gist.github.com/2"}
\* non-2xx statuses GitHub answers with
ErrorStatuses == {401, 404, 500}

RECURSIVE SeqsUpTo(_, _)
SeqsUpTo(S, n) ==
  IF n = 0 THEN {<<>>}
  ELSE LET shorter == SeqsUpTo(S, n - 1)
       IN shorter \cup {Append(q, x) : q \in shorter, x \in S}

(***************************************************************************)
(* Errors (errors.ts).                                                     *)
(***************************************************************************)
AuthError(message) == [tag |-> "AuthError", message |-> message]
NoWorkspaceError == [tag |-> "NoWorkspaceError"]
NoFilesFoundError == [tag |-> "NoFilesFoundError"]
ConfigWriteError == [tag |-> "ConfigWriteError"]
HttpError(status, endpoint, statusText) ==
  [tag |-> "HttpError", status |-> status, endpoint |-> endpoint,
   statusText |-> statusText]
GistNotFoundError(gistId) == [tag |-> "GistNotFoundError", gistId |-> gistId]
TimeoutError(operation, durationMs) ==
  [tag |-> "TimeoutError", operation |-> operation, durationMs |-> durationMs]

\* renderError: the user-facing message, as its literal and interpolated parts
renderError(error) ==
  CASE error.tag = "AuthError" -> <<"Authentication failed: ", error.message>>
    [] error.tag = "NoWorkspaceError" -> <<"No workspace folder open">>
    [] error.tag = "NoFilesFoundError" -> <<"No configured files found in workspace">>
    [] error.tag = "ConfigWriteError" -> <<"Failed to update configuration">>
    [] error.tag = "HttpError" ->
         <<"HTTP ", error.status, " error at ", error.endpoint, ": ", error.statusText>>
    [] error.tag = "GistNotFoundError" ->
         <<"Gist not found: ", error.gistId, ". It may have been deleted.">>
    [] error.tag = "TimeoutError" ->
         <<"Operation \"", error.operation, "\" timed out after ", error.durationMs, "ms">>

(***************************************************************************)
(* State.                                                                  *)
(***************************************************************************)
VARIABLES
  workspaceFolders,   \* vscode.workspace.workspaceFolders ( <<>> when none is open)
  world,              \* what the collaborators may answer in this behaviour
  cfgFiles,           \* setting gistSync.files: None (unset) or Some(list)
  cfgGistId,          \* setting gistSync.gistId: None (unset) or Some(string)
  statusText,         \* statusBar.text
  statusBackground,   \* statusBar.backgroundColor
  statusResetTimer,   \* the module variable: None, or Some(handle) of the last timer
  timeouts,           \* handles of the timers set and neither run nor cleared
  att                 \* per sync attempt: the fiber running syncWithRecovery

vars == <<workspaceFolders, world, cfgFiles, cfgGistId, statusText, statusBackground,
          statusResetTimer, timeouts, att>>

\* the attempts that may be in flight together; Spec runs them one at a time
Attempts == {"A", "B"}
OneAtATime == {"A"}

NewAttempt ==
  [pc |-> "idle",
   phase |-> "first",        \* pipeline segment the fiber is in: first run, inside
                             \* handleNoFilesFound ("nff"), inside handleGistNotFound ("gnf")
   isRetry |-> FALSE,        \* syncWithRecovery's parameter
   runs |-> 0,               \* syncFilesToGist executions of this attempt
   runStartGistId |-> None,  \* gistSync.gistId when the current run started
   workspace |-> None,       \* the workspace root the current run resolved
   filenames |-> <<>>,
   idx |-> 0,
   files |-> <<>>,
   reads |-> <<>>,           \* fsPaths handed to readFile in the current run
   payload |-> <<>>,         \* filesWithTitle
   session |-> None,         \* what getSession answered in the current run
   token |-> None,
   existingGistId |-> None,
   apiCalls |-> <<>>,        \* createGist / updateGist calls of the current run
   requests |-> <<>>,        \* the HTTP requests of the current run
   steps |-> <<>>,           \* the steps of the current run, in the order taken
   response |-> None,
   fetched |-> None,         \* how the createGist / updateGist call of the current run ended
   setGistIdCalls |-> <<>>,  \* ids the current run handed to ConfigService.setGistId
   result |-> None,          \* SyncResult
   error |-> None,           \* the failure being propagated
   runLog |-> <<>>,          \* one entry per finished run
   createNewPrompts |-> 0,   \* "Gist not found ... Create New Gist" prompts shown
   createNewAnswer |-> None,
   clearWritten |-> None,    \* whether the write of setGistId("") took place
   addFilePrompts |-> 0,     \* "Add ... to sync list?" prompts shown
   activeEditor |-> None,    \* vscode.window.activeTextEditor as handleNoFilesFound saw it
   addFileAnswer |-> None,
   filesWritten |-> None,    \* whether the write of setFilesToSync took place
   relativePath |-> <<>>,
   updatedFiles |-> <<>>,
   successShown |-> 0,
   guidanceShown |-> 0,
   failureShown |-> 0,
   failureMessage |-> None,  \* the text of the "Gist Sync failed" message
   finalError |-> None,
   startFiles |-> None,      \* the settings when the command was invoked
   startGistId |-> None]

IdleText == "$(cloud-upload) Gist"
SyncingText == "$(sync~spin) Syncing..."
SyncedText == "$(check) Synced"
FailedText == "$(error) Sync Failed"

(***************************************************************************)
(* Services.                                                               *)
(***************************************************************************)
\* services/config.ts
\* variant: only an unset list is replaced by the default
getFilesToSync_NoDefault ==
  IF IsSome(cfgFiles) THEN cfgFiles[1] ELSE <<DefaultFile>>

getFilesToSync ==
  IF IsSome(cfgFiles) /\ Len(cfgFiles[1]) > 0 THEN cfgFiles[1] ELSE <<DefaultFile>>

\* variant: only an unset id counts as absent
getGistId_EmptyIsPresent ==
  IF IsSome(cfgGistId) THEN Some(cfgGistId[1]) ELSE None

getGistId ==
  IF IsSome(cfgGistId) /\ cfgGistId[1] # "" THEN Some(cfgGistId[1]) ELSE None

\* variant: the last folder of the workspace is taken
getWorkspaceRoot_Last ==
  IF workspaceFolders = <<>> THEN None
  ELSE Some(workspaceFolders[Len(workspaceFolders)])

getWorkspaceRoot ==
  IF workspaceFolders = <<>> THEN None ELSE Some(workspaceFolders[1])

\* variant: an empty id is not written
setGistId_SkipsEmpty(gistId, written) ==
  IF written /\ gistId # "" THEN cfgGistId' = Some(gistId) ELSE UNCHANGED cfgGistId

\* config.update("gistId", gistId, Workspace): written, or the write is rejected
setGistId(gistId, written) ==
  IF written THEN cfgGistId' = Some(gistId) ELSE UNCHANGED cfgGistId

\* config.update("files", files, Workspace)
setFilesToSync(files, written) ==
  IF written THEN cfgFiles' = Some(files) ELSE UNCHANGED cfgFiles

\* services/file-system.ts: the bytes, or none on any read error
readFile(fsPath) ==
  IF fsPath \in ReadableFiles THEN Some(ContentOf(fsPath)) ELSE None

\* services/auth.ts: getSession gives a session, gives null, or throws
AuthOutcomes == {"session", "null", "throwsError", "throwsOther"}

\* variant: a null session gives an empty token
getToken_NullIsEmptyToken(outcome) ==
  CASE outcome = "session" -> [ok |-> TRUE, token |-> "token"]
    [] outcome = "null" -> [ok |-> TRUE, token |-> ""]
    [] outcome = "throwsError" -> [ok |-> FALSE, error |-> AuthError("message")]
    [] outcome = "throwsOther" ->
         [ok |-> FALSE, error |-> AuthError("Authentication failed")]

getToken(outcome) ==
  CASE outcome = "session" -> [ok |-> TRUE, token |-> "token"]
    [] outcome = "null" ->
         [ok |-> FALSE, error |-> AuthError("GitHub authentication failed")]
    [] outcome = "throwsError" -> [ok |-> FALSE, error |-> AuthError("message")]
    [] outcome = "throwsOther" ->
         [ok |-> FALSE, error |-> AuthError("Authentication failed")]

\* services/github-api.ts
GIST_API_BASE == "https://api.github.com/gists"
FetchTimeoutMs == 30000

createEndpoint == <<GIST_API_BASE>>
updateEndpoint(gistId) == <<GIST_API_BASE, gistId>>

\* what one request can end in: a parsed 2xx response, a 2xx response whose body
\* is no JSON, a non-2xx response (body readable or not), a rejected fetch, or
\* no answer within FETCH_TIMEOUT, the fetch or the reading of the body pending
HttpOutcomes ==
  {[kind |-> "ok", id |-> id, html_url |-> u] : id \in GistIds, u \in GistUrls}
  \cup {[kind |-> "invalidJson"]}
  \cup {[kind |-> "status", status |-> st, bodyRead |-> b] :
          st \in ErrorStatuses, b \in BOOLEAN}
  \cup {[kind |-> "network"]}
  \cup {[kind |-> "timeout", during |-> d] : d \in {"fetch", "body"}}

\* Effect.async: resume with the Response or with HttpError(status 0); the effect
\* it returns, controller.abort(), runs only when the fiber is interrupted
\* while the fetch is pending
fetchWithAbort(outcome, url) ==
  CASE outcome.kind = "network" ->
         [interrupted |-> FALSE, ok |-> FALSE, aborted |-> FALSE,
          error |-> HttpError(0, url, "Network error")]
    [] outcome.kind = "timeout" /\ outcome.during = "fetch" ->
         [interrupted |-> TRUE, ok |-> FALSE, aborted |-> TRUE]
    [] OTHER ->
         [interrupted |-> FALSE, ok |-> TRUE, aborted |-> FALSE]

\* the Response is turned into the GistResponse or an HttpError; reading the
\* body (response.text(), response.json()) can be interrupted too
parseResponse(outcome, endpoint) ==
  CASE outcome.kind = "ok" ->
         [interrupted |-> FALSE, ok |-> TRUE,
          response |-> [id |-> outcome.id, html_url |-> outcome.html_url]]
    [] outcome.kind = "invalidJson" ->
         [interrupted |-> FALSE, ok |-> FALSE,
          error |-> HttpError(200, endpoint, "Invalid JSON")]
    [] outcome.kind = "status" ->
         [interrupted |-> FALSE, ok |-> FALSE,
          error |-> HttpError(outcome.status, endpoint,
                      IF outcome.bodyRead THEN "statusText"
                      ELSE "Failed to read response body")]
    [] outcome.kind = "timeout" ->
         [interrupted |-> TRUE, ok |-> FALSE]

\* Effect.timeoutFail: the call is interrupted after FETCH_TIMEOUT and fails with
\* TimeoutError
withTimeout(call, operation) ==
  IF call.interrupted
  THEN [ok |-> FALSE, aborted |-> call.aborted,
        error |-> TimeoutError(operation, FetchTimeoutMs)]
  ELSE call

\* fetchWithAbort, then parseResponse, under withTimeout: the GistResponse or the
\* error, and whether controller.abort() was called
request(outcome, endpoint, operation) ==
  LET fetched == fetchWithAbort(outcome, endpoint)
      parsed == parseResponse(outcome, endpoint)
  IN withTimeout(
       IF fetched.interrupted \/ ~fetched.ok THEN fetched
       ELSE IF parsed.ok
       THEN [interrupted |-> FALSE, ok |-> TRUE, aborted |-> fetched.aborted,
             response |-> parsed.response]
       ELSE IF parsed.interrupted
       THEN [interrupted |-> TRUE, ok |-> FALSE, aborted |-> fetched.aborted]
       ELSE [interrupted |-> FALSE, ok |-> FALSE, aborted |-> fetched.aborted,
             error |-> parsed.error],
       operation)

\* `${workspaceName} | gist-sync`
buildGistDescription(workspaceName) == workspaceName \o TitleSuffix

headers(token) ==
  [h \in {"Accept", "Authorization", "Content-Type", "X-GitHub-Api-Version"} |->
     CASE h = "Accept" -> <<"application/vnd.github+json">>
       [] h = "Authorization" -> <<"Bearer ", token>>
       [] h = "Content-Type" -> <<"application/json">>
       [] h = "X-GitHub-Api-Version" -> <<"2022-11-28">>]

\* the request createGist hands to fetch
createRequest(token, files, workspacePath) ==
  [method |-> "POST", url |-> createEndpoint, headers |-> headers(token),
   body |-> [description |-> buildGistDescription(workspacePath), files |-> files,
             public |-> FALSE]]

\* variant: the update body carries the visibility flag as the create body does
updateRequest_WithPublic(token, gistId, files, workspacePath) ==
  [method |-> "PATCH", url |-> updateEndpoint(gistId), headers |-> headers(token),
   body |-> [description |-> buildGistDescription(workspacePath), files |-> files,
             public |-> FALSE]]

\* the request updateGist hands to fetch
updateRequest(token, gistId, files, workspacePath) ==
  [method |-> "PATCH", url |-> updateEndpoint(gistId), headers |-> headers(token),
   body |-> [description |-> buildGistDescription(workspacePath), files |-> files]]

createGist(outcome) == request(outcome, createEndpoint, "createGist")

\* variant: every failed update is reported as a missing gist
updateGist_AnyFailureIsNotFound(outcome, gistId) ==
  LET r == request(outcome, updateEndpoint(gistId), "updateGist")
  IN IF ~r.ok /\ r.error.tag = "HttpError"
     THEN [ok |-> FALSE, aborted |-> r.aborted, error |-> GistNotFoundError(gistId)]
     ELSE r

\* updateGist maps an HttpError with status 404 to GistNotFoundError
updateGist(outcome, gistId) ==
  LET r == request(outcome, updateEndpoint(gistId), "updateGist")
  IN IF ~r.ok /\ r.error.tag = "HttpError" /\ r.error.status = 404
     THEN [ok |-> FALSE, aborted |-> r.aborted, error |-> GistNotFoundError(gistId)]
     ELSE r

\* what the attempt remembers of a finished createGist / updateGist call
Fetched(outcome, call) ==
  [outcome |-> outcome, aborted |-> call.aborted, ok |-> call.ok,
   error |-> IF call.ok THEN None ELSE Some(call.error)]

(***************************************************************************)
(* Status bar (status-bar.ts).                                             *)
(***************************************************************************)
TimerIds == 1..MaxTimers

\* clearStatusResetTimer: the timeouts left after clearTimeout(statusResetTimer)
clearStatusResetTimer ==
  IF IsSome(statusResetTimer) THEN timeouts \ {statusResetTimer[1]} ELSE timeouts

setStatusSyncing ==
  /\ timeouts' = clearStatusResetTimer
  /\ statusResetTimer' = None
  /\ statusText' = SyncingText
  /\ statusBackground' = "undefined"

setStatusSuccess ==
  /\ statusText' = SyncedText
  /\ statusBackground' = "undefined"
  /\ \E handle \in TimerIds \ clearStatusResetTimer :
       /\ \A other \in TimerIds \ clearStatusResetTimer : handle <= other
       /\ timeouts' = clearStatusResetTimer \cup {handle}
       /\ statusResetTimer' = Some(handle)

\* variant: the pending reset is left running
setStatusError_KeepsTimer ==
  /\ UNCHANGED <<timeouts, statusResetTimer>>
  /\ statusText' = FailedText
  /\ statusBackground' = "statusBarItem.errorBackground"

setStatusError ==
  /\ timeouts' = clearStatusResetTimer
  /\ statusResetTimer' = None
  /\ statusText' = FailedText
  /\ statusBackground' = "statusBarItem.errorBackground"

setStatusIdle ==
  /\ timeouts' = clearStatusResetTimer
  /\ statusResetTimer' = None
  /\ statusText' = IdleText
  /\ statusBackground' = "undefined"

statusVars == <<statusText, statusBackground, statusResetTimer, timeouts>>
envVars == <<workspaceFolders, world>>
configVars == <<cfgFiles, cfgGistId>>

\* the callback of a timer setStatusSuccess set runs; statusResetTimer keeps the
\* handle
StatusResetTimerFires ==
  /\ \E handle \in timeouts : timeouts' = timeouts \ {handle}
  /\ statusText' = IdleText
  /\ UNCHANGED <<statusBackground, statusResetTimer, envVars, configVars, att>>

(***************************************************************************)
(* syncFilesToGist (gist-sync.ts), one action per asynchronous step.       *)
(***************************************************************************)
RunEntry(r, outcome) ==
  [phase |-> r.phase, outcome |-> outcome, filenames |-> r.filenames,
   apiCalls |-> r.apiCalls, fetched |-> r.fetched,
   startGistId |-> r.runStartGistId]

\* the run of attempt record r fails with err
RunFails(r, err) ==
  [r EXCEPT !.pc = "failed", !.error = Some(err),
            !.runLog = Append(@, RunEntry(r, err.tag))]

\* the run of attempt record r returns result
RunSucceeds(r, result) ==
  [r EXCEPT !.pc = "succeeded", !.result = Some(result),
            !.runLog = Append(@, RunEntry(r, "ok"))]

\* variant: fileCount counts the entries of filesWithTitle
SyncResult_CountsTitle(r, response, isNew) ==
  [fileCount |-> Len(ObjKeys(r.payload)), gistId |-> response.id,
   gistUrl |-> response.html_url, isNew |-> isNew]

\* the SyncResult both branches of step 9 return
SyncResult(r, response, isNew) ==
  [fileCount |-> Len(ObjKeys(r.files)), gistId |-> response.id,
   gistUrl |-> response.html_url, isNew |-> isNew]

\* the metadata text; the "Synced: <time>" line carries no state and is left out
metadata(files) ==
  <<"F", "i", "l", "e", "s", ":", " ">> \o JoinKeys(ObjKeys(files))

\* variant: { ...files, [titleFilename]: { content: metadata } }
filesWithTitle_TitleLast(workspaceName, files) ==
  ObjSet(files, titleFilename(workspaceName), metadata(files))

\* { [titleFilename]: { content: metadata }, ...files }
filesWithTitle(workspaceName, files) ==
  ObjSpread(ObjSet(<<>>, titleFilename(workspaceName), metadata(files)), files)

\* steps 1-3: workspace root, files to sync, the fresh files object
PerformSyncStart(a) ==
  /\ att[a].pc = "performSync"
  /\ LET r == [att[a] EXCEPT
                 !.runs = @ + 1, !.runStartGistId = cfgGistId,
                 !.workspace = getWorkspaceRoot,
                 !.filenames = <<>>, !.idx = 0, !.files = <<>>, !.reads = <<>>,
                 !.payload = <<>>, !.session = None, !.token = None,
                 !.existingGistId = None, !.requests = <<>>,
                 !.steps = <<"getWorkspaceRoot">>,
                 !.apiCalls = <<>>, !.response = None, !.fetched = None,
                 !.setGistIdCalls = <<>>,
                 !.result = None, !.error = None]
     IN att' = [att EXCEPT ![a] =
          IF IsNone(getWorkspaceRoot)
          THEN RunFails(r, NoWorkspaceError)
          ELSE [r EXCEPT !.pc = "readFile", !.filenames = getFilesToSync, !.idx = 1,
                         !.steps = Append(@, "getFilesToSync")]]
  /\ UNCHANGED <<envVars, configVars, statusVars>>

\* variant: the loop is left at the first file that cannot be read
ReadFile_StopsAtMissing(a) ==
  /\ att[a].pc = "readFile"
  /\ att[a].idx <= Len(att[a].filenames)
  /\ LET r == att[a]
         workspace == r.workspace[1]
         filename == r.filenames[r.idx]
         fsPath == joinPath(workspace.fsPath, filename)
         content == readFile(fsPath)
     IN att' = [att EXCEPT ![a] =
          IF ~isPathSafe(workspace.fsPath, fsPath)
          THEN [r EXCEPT !.idx = @ + 1, !.steps = Append(@, "isPathSafe")]
          ELSE [r EXCEPT
                  !.idx = IF IsSome(content) THEN @ + 1 ELSE Len(r.filenames) + 1,
                  !.reads = Append(@, fsPath),
                  !.steps = @ \o <<"isPathSafe", "readFile">>,
                  !.files = IF IsSome(content)
                            THEN ObjSet(@, toGistFilename(filename), content[1])
                            ELSE @]]
  /\ UNCHANGED <<envVars, configVars, statusVars>>

\* step 4, one iteration of the loop over filenames
ReadFile(a) ==
  /\ att[a].pc = "readFile"
  /\ att[a].idx <= Len(att[a].filenames)
  /\ LET r == att[a]
         workspace == r.workspace[1]
         filename == r.filenames[r.idx]
         fsPath == joinPath(workspace.fsPath, filename)
         content == readFile(fsPath)
     IN att' = [att EXCEPT ![a] =
          IF ~isPathSafe(workspace.fsPath, fsPath)
          THEN [r EXCEPT !.idx = @ + 1, !.steps = Append(@, "isPathSafe")]
          ELSE [r EXCEPT
                  !.idx = @ + 1,
                  !.reads = Append(@, fsPath),
                  !.steps = @ \o <<"isPathSafe", "readFile">>,
                  !.files = IF IsSome(content)
                            THEN ObjSet(@, toGistFilename(filename), content[1])
                            ELSE @]]
  /\ UNCHANGED <<envVars, configVars, statusVars>>

\* variant: step 5, the empty check, is missing
BuildPayload_NoEmptyCheck(a) ==
  /\ att[a].pc = "readFile"
  /\ att[a].idx > Len(att[a].filenames)
  /\ LET r == att[a]
         workspace == r.workspace[1]
     IN att' = [att EXCEPT ![a] =
          [r EXCEPT !.pc = "getToken",
                    !.payload = filesWithTitle(workspace.name, r.files)]]
  /\ UNCHANGED <<envVars, configVars, statusVars>>

\* steps 5-6 after the loop: the empty check and the payload; getToken is started
BuildPayload(a) ==
  /\ att[a].pc = "readFile"
  /\ att[a].idx > Len(att[a].filenames)
  /\ LET r == att[a]
         workspace == r.workspace[1]
     IN att' = [att EXCEPT ![a] =
          IF Len(ObjKeys(r.files)) = 0
          THEN RunFails([r EXCEPT !.steps = Append(@, "emptyCheck")], NoFilesFoundError)
          ELSE [r EXCEPT !.pc = "getToken",
                         !.steps = Append(@, "emptyCheck"),
                         !.payload = filesWithTitle(workspace.name, r.files)]]
  /\ UNCHANGED <<envVars, configVars, statusVars>>

\* variant: the gist id is read before the token is asked for
GetToken_ReadsIdFirst(a) ==
  /\ att[a].pc = "getToken"
  /\ \E outcome \in world.auth :
       LET existingGistId == getGistId
           t == getToken(outcome)
           r == [att[a] EXCEPT !.session = Some(outcome),
                               !.steps = @ \o <<"getGistId", "getToken">>]
           workspace == r.workspace[1]
       IN att' = [att EXCEPT ![a] =
            IF ~t.ok THEN RunFails(r, t.error)
            ELSE IF IsNone(existingGistId)
            THEN [r EXCEPT !.pc = "createGist", !.token = Some(t.token),
                    !.existingGistId = existingGistId,
                    !.steps = Append(@, "createGist"),
                    !.requests = Append(@, createRequest(t.token, r.payload,
                                                         workspace.name)),
                    !.apiCalls = Append(@, [op |-> "createGist", files |-> r.payload])]
            ELSE [r EXCEPT !.pc = "updateGist", !.token = Some(t.token),
                    !.existingGistId = existingGistId,
                    !.steps = Append(@, "updateGist"),
                    !.requests = Append(@, updateRequest(t.token, existingGistId[1],
                                                         r.payload, workspace.name)),
                    !.apiCalls = Append(@, [op |-> "updateGist",
                                             gistId |-> existingGistId[1],
                                             files |-> r.payload])]]
  /\ UNCHANGED <<envVars, configVars, statusVars>>

\* steps 7-9: the token arrives, the gist id is read, createGist or updateGist is called
GetToken(a) ==
  /\ att[a].pc = "getToken"
  /\ \E outcome \in world.auth :
       LET t == getToken(outcome)
           r == [att[a] EXCEPT !.session = Some(outcome),
                               !.steps = Append(@, "getToken")]
           workspace == r.workspace[1]
           existingGistId == getGistId
       IN att' = [att EXCEPT ![a] =
            IF ~t.ok THEN RunFails(r, t.error)
            ELSE IF IsNone(existingGistId)
            THEN [r EXCEPT !.pc = "createGist", !.token = Some(t.token),
                    !.existingGistId = existingGistId,
                    !.steps = @ \o <<"getGistId", "createGist">>,
                    !.requests = Append(@, createRequest(t.token, r.payload,
                                                         workspace.name)),
                    !.apiCalls = Append(@, [op |-> "createGist", files |-> r.payload])]
            ELSE [r EXCEPT !.pc = "updateGist", !.token = Some(t.token),
                    !.existingGistId = existingGistId,
                    !.steps = @ \o <<"getGistId", "updateGist">>,
                    !.requests = Append(@, updateRequest(t.token, existingGistId[1],
                                                         r.payload, workspace.name)),
                    !.apiCalls = Append(@, [op |-> "updateGist",
                                             gistId |-> existingGistId[1],
                                             files |-> r.payload])]]
  /\ UNCHANGED <<envVars, configVars, statusVars>>

\* createGist ends; on success setGistId(response.id) is called
CreateGistEnds(a) ==
  /\ att[a].pc = "createGist"
  /\ \E outcome \in world.http :
       LET c == createGist(outcome)
           r == [att[a] EXCEPT !.fetched = Some(Fetched(outcome, c))]
       IN att' = [att EXCEPT ![a] =
            IF ~c.ok THEN RunFails(r, c.error)
            ELSE [r EXCEPT !.pc = "setGistId", !.response = Some(c.response),
                           !.steps = Append(@, "setGistId"),
                           !.setGistIdCalls = Append(@, c.response.id)]]
  /\ UNCHANGED <<envVars, configVars, statusVars>>

\* variant: a failed write of the id is ignored
SetGistIdEnds_IgnoresFailure(a) ==
  /\ att[a].pc = "setGistId"
  /\ \E written \in world.written :
       LET r == att[a]
           response == r.response[1]
       IN /\ setGistId(response.id, written)
          /\ att' = [att EXCEPT ![a] = RunSucceeds(r, SyncResult(r, response, TRUE))]
  /\ UNCHANGED <<envVars, cfgFiles, statusVars>>

\* the configuration write of the create path ends
SetGistIdEnds(a) ==
  /\ att[a].pc = "setGistId"
  /\ \E written \in world.written :
       LET r == att[a]
           response == r.response[1]
       IN /\ setGistId(response.id, written)
          /\ att' = [att EXCEPT ![a] =
               IF ~written THEN RunFails(r, ConfigWriteError)
               ELSE RunSucceeds(r, SyncResult(r, response, TRUE))]
  /\ UNCHANGED <<envVars, cfgFiles, statusVars>>

\* variant: the update path persists the id of the response as the create path does
UpdateGistEnds_PersistsId(a) ==
  /\ att[a].pc = "updateGist"
  /\ \E outcome \in world.http :
       LET u == updateGist(outcome, att[a].existingGistId[1])
           r == [att[a] EXCEPT !.fetched = Some(Fetched(outcome, u))]
       IN /\ att' = [att EXCEPT ![a] =
               IF ~u.ok THEN RunFails(r, u.error)
               ELSE RunSucceeds([r EXCEPT !.response = Some(u.response)],
                                SyncResult(r, u.response, FALSE))]
          /\ IF u.ok THEN setGistId(u.response.id, TRUE) ELSE UNCHANGED cfgGistId
  /\ UNCHANGED <<envVars, cfgFiles, statusVars>>

\* updateGist ends
UpdateGistEnds(a) ==
  /\ att[a].pc = "updateGist"
  /\ \E outcome \in world.http :
       LET u == updateGist(outcome, att[a].existingGistId[1])
           r == [att[a] EXCEPT !.fetched = Some(Fetched(outcome, u))]
       IN att' = [att EXCEPT ![a] =
            IF ~u.ok THEN RunFails(r, u.error)
            ELSE RunSucceeds([r EXCEPT !.response = Some(u.response)],
                             SyncResult(r, u.response, FALSE))]
  /\ UNCHANGED <<envVars, configVars, statusVars>>

(***************************************************************************)
(* The sync command and its recovery (extension.ts).                       *)
(***************************************************************************)
EndsWith(s, suffix) ==
  /\ Len(s) >= Len(suffix)
  /\ SubSeq(s, Len(s) - Len(suffix) + 1, Len(s)) = suffix

UpperCase == <<"A", "B", "C", "D", "E", "F", "G", "H", "I", "J", "K", "L", "M",
               "N", "O", "P", "Q", "R", "S", "T", "U", "V", "W", "X", "Y", "Z">>
LowerCase == <<"a", "b", "c", "d", "e", "f", "g", "h", "i", "j", "k", "l", "m",
               "n", "o", "p", "q", "r", "s", "t", "u", "v", "w", "x", "y", "z">>

toLowerCase(s) ==
  [i \in 1..Len(s) |->
     IF \E n \in 1..26 : UpperCase[n] = s[i]
     THEN LowerCase[CHOOSE n \in 1..26 : UpperCase[n] = s[i]]
     ELSE s[i]]

\* gistSync.statusBarExtensions is left at its default
getStatusBarExtensions == << <<".", "m", "d">> >>

fileMatchesExtensions(fileName, extensions) ==
  \E i \in 1..Len(extensions) :
    EndsWith(toLowerCase(fileName), toLowerCase(extensions[i]))

\* path.basename
basename(fsPath) ==
  LET segs == SplitPath(fsPath, <<>>) IN segs[Len(segs)]

\* vscode.workspace.asRelativePath: relative to the folder that holds the file,
\* with the folder's name in front when several folders are open
asRelativePath(fsPath) ==
  IF \E n \in 1..Len(workspaceFolders) :
       StartsWith(fsPath, workspaceFolders[n].fsPath \o <<"/">>)
  THEN LET folder == workspaceFolders[CHOOSE n \in 1..Len(workspaceFolders) :
                       StartsWith(fsPath, workspaceFolders[n].fsPath \o <<"/">>)]
           relative == SubSeq(fsPath, Len(folder.fsPath) + 2, Len(fsPath))
       IN IF Len(workspaceFolders) > 1 THEN folder.name \o <<"/">> \o relative
          ELSE relative
  ELSE fsPath

\* variant: the path is appended without looking for it in the list
updatedFiles_AlwaysAppends(existingFiles, filePath) ==
  Append(existingFiles, filePath)

\* existingFiles.includes(filePath) ? existingFiles : [...existingFiles, filePath]
updatedFiles(existingFiles, filePath) ==
  IF \E i \in 1..Len(existingFiles) : existingFiles[i] = filePath
  THEN existingFiles
  ELSE Append(existingFiles, filePath)

\* the command handler: setStatusSyncing, then runPromise(syncWithRecovery(statusBar))
SyncCommand(a) ==
  /\ att[a].pc \in {"idle", "done"}
  /\ setStatusSyncing
  /\ att' = [att EXCEPT ![a] =
       [NewAttempt EXCEPT !.pc = "performSync", !.isRetry = FALSE,
                          !.startFiles = cfgFiles, !.startGistId = cfgGistId]]
  /\ UNCHANGED <<envVars, configVars>>

\* catchTag("NoFilesFoundError") around the first run: handleNoFilesFound
CatchNoFilesFound(a) ==
  /\ att[a].pc = "failed"
  /\ att[a].phase = "first"
  /\ att[a].error[1].tag = "NoFilesFoundError"
  /\ \E editor \in world.editors :
       LET r == att[a]
           extensions == getStatusBarExtensions
       IN IF IsSome(editor) /\ fileMatchesExtensions(editor[1], extensions)
          THEN /\ att' = [att EXCEPT ![a] =
                    [r EXCEPT !.pc = "promptAddFile", !.phase = "nff",
                              !.activeEditor = editor,
                              !.addFilePrompts = @ + 1,
                              !.relativePath =
                                 IF workspaceFolders # <<>>
                                 THEN asRelativePath(editor[1])
                                 ELSE basename(editor[1])]]
               /\ UNCHANGED statusVars
          ELSE /\ setStatusError
               /\ att' = [att EXCEPT ![a] =
                    [r EXCEPT !.phase = "nff", !.activeEditor = editor,
                              !.guidanceShown = @ + 1]]
  /\ UNCHANGED <<envVars, configVars>>

\* variant: the file is added whatever the user answers
AddFileAnswered_IgnoresAnswer(a) ==
  /\ att[a].pc = "promptAddFile"
  /\ \E addFile \in BOOLEAN :
       LET r == att[a] IN
       att' = [att EXCEPT ![a] =
         [r EXCEPT !.pc = "setFilesToSync", !.addFileAnswer = Some(addFile),
                   !.updatedFiles = updatedFiles(getFilesToSync, r.relativePath)]]
  /\ UNCHANGED <<envVars, configVars, statusVars>>

\* the user answers "Add ... to sync list?"; on "Add File" the list is read and
\* setFilesToSync is called
AddFileAnswered(a) ==
  /\ att[a].pc = "promptAddFile"
  /\ \E addFile \in BOOLEAN :
       LET r == att[a] IN
       att' = [att EXCEPT ![a] =
         IF ~addFile THEN [r EXCEPT !.pc = "failed", !.addFileAnswer = Some(FALSE)]
         ELSE [r EXCEPT !.pc = "setFilesToSync", !.addFileAnswer = Some(TRUE),
                        !.updatedFiles = updatedFiles(getFilesToSync, r.relativePath)]]
  /\ UNCHANGED <<envVars, configVars, statusVars>>

\* variant: the write of the file list also resets the stored gist id
SetFilesToSyncEnds_ClearsId(a) ==
  /\ att[a].pc = "setFilesToSync"
  /\ \E written \in world.written :
       /\ setFilesToSync(att[a].updatedFiles, written)
       /\ setGistId("", written)
       /\ IF written
          THEN /\ setStatusIdle
               /\ att' = [att EXCEPT ![a].pc = "performSync",
                                     ![a].filesWritten = Some(TRUE)]
          ELSE /\ UNCHANGED statusVars
               /\ att' = [att EXCEPT ![a].pc = "failed",
                                     ![a].filesWritten = Some(FALSE),
                                     ![a].error = Some(ConfigWriteError)]
  /\ UNCHANGED envVars

\* the write of the list ends; on success setStatusIdle and the retry
SetFilesToSyncEnds(a) ==
  /\ att[a].pc = "setFilesToSync"
  /\ \E written \in world.written :
       /\ setFilesToSync(att[a].updatedFiles, written)
       /\ IF written
          THEN /\ setStatusIdle
               /\ att' = [att EXCEPT ![a].pc = "performSync",
                                     ![a].filesWritten = Some(TRUE)]
          ELSE /\ UNCHANGED statusVars
               /\ att' = [att EXCEPT ![a].pc = "failed",
                                     ![a].filesWritten = Some(FALSE),
                                     ![a].error = Some(ConfigWriteError)]
  /\ UNCHANGED <<envVars, cfgGistId>>

\* variant: the retry of handleGistNotFound is wrapped by the same catchTag
CatchGistNotFound_OnEveryRun(a) ==
  /\ att[a].pc = "failed"
  /\ att[a].error[1].tag = "GistNotFoundError"
  /\ att' = [att EXCEPT ![a] =
       IF att[a].isRetry
       THEN [att[a] EXCEPT !.phase = "gnf"]
       ELSE [att[a] EXCEPT !.pc = "promptCreateNew", !.phase = "gnf",
                           !.createNewPrompts = @ + 1]]
  /\ UNCHANGED <<envVars, configVars, statusVars>>

\* catchTag("GistNotFoundError") around the first run and handleNoFilesFound:
\* handleGistNotFound(statusBar, error, isRetry)
CatchGistNotFound(a) ==
  /\ att[a].pc = "failed"
  /\ att[a].phase \in {"first", "nff"}
  /\ att[a].error[1].tag = "GistNotFoundError"
  /\ att' = [att EXCEPT ![a] =
       IF att[a].isRetry
       THEN [att[a] EXCEPT !.phase = "gnf"]
       ELSE [att[a] EXCEPT !.pc = "promptCreateNew", !.phase = "gnf",
                           !.createNewPrompts = @ + 1]]
  /\ UNCHANGED <<envVars, configVars, statusVars>>

\* variant: the answer is not looked at, the id is cleared in either case
CreateNewAnswered_IgnoresAnswer(a) ==
  /\ att[a].pc = "promptCreateNew"
  /\ \E confirmed \in BOOLEAN :
       att' = [att EXCEPT ![a] =
         [att[a] EXCEPT !.pc = "clearGistId", !.createNewAnswer = Some(confirmed)]]
  /\ UNCHANGED <<envVars, configVars, statusVars>>

\* the user answers "Gist not found"; on "Create New Gist" setGistId("") is called
CreateNewAnswered(a) ==
  /\ att[a].pc = "promptCreateNew"
  /\ \E confirmed \in BOOLEAN :
       att' = [att EXCEPT ![a] =
         [att[a] EXCEPT !.pc = IF confirmed THEN "clearGistId" ELSE "failed",
                        !.createNewAnswer = Some(confirmed)]]
  /\ UNCHANGED <<envVars, configVars, statusVars>>

\* variant: the retry is started without clearing the id
ClearGistIdEnds_KeepsId(a) ==
  /\ att[a].pc = "clearGistId"
  /\ \E written \in world.written :
       IF written
       THEN /\ setStatusIdle
            /\ att' = [att EXCEPT ![a].pc = "performSync",
                                  ![a].clearWritten = Some(TRUE)]
       ELSE /\ UNCHANGED statusVars
            /\ att' = [att EXCEPT ![a].pc = "failed",
                                  ![a].clearWritten = Some(FALSE),
                                  ![a].error = Some(ConfigWriteError)]
  /\ UNCHANGED <<envVars, cfgFiles, cfgGistId>>

\* the write that clears the id ends; on success setStatusIdle and the retry
ClearGistIdEnds(a) ==
  /\ att[a].pc = "clearGistId"
  /\ \E written \in world.written :
       /\ setGistId("", written)
       /\ IF written
          THEN /\ setStatusIdle
               /\ att' = [att EXCEPT ![a].pc = "performSync",
                                     ![a].clearWritten = Some(TRUE)]
          ELSE /\ UNCHANGED statusVars
               /\ att' = [att EXCEPT ![a].pc = "failed",
                                     ![a].clearWritten = Some(FALSE),
                                     ![a].error = Some(ConfigWriteError)]
  /\ UNCHANGED <<envVars, cfgFiles>>

\* tap(showSuccess): the information message is shown
ShowSuccess(a) ==
  /\ att[a].pc = "succeeded"
  /\ att' = [att EXCEPT ![a].pc = "showSuccess", ![a].successShown = @ + 1]
  /\ UNCHANGED <<envVars, configVars, statusVars>>

\* variant: the status is not set after the success message
SuccessAnswered_KeepsStatus(a) ==
  /\ att[a].pc = "showSuccess"
  /\ att' = [att EXCEPT ![a].pc = "done"]
  /\ UNCHANGED <<envVars, configVars, statusVars>>

\* the message is answered or dismissed; tap(setStatusSuccess)
SuccessAnswered(a) ==
  /\ att[a].pc = "showSuccess"
  /\ setStatusSuccess
  /\ att' = [att EXCEPT ![a].pc = "done"]
  /\ UNCHANGED <<envVars, configVars>>

\* variant: the status turns to the error state, no message is shown
CatchAll_Silent(a) ==
  /\ att[a].pc = "failed"
  /\ ~ (att[a].phase = "first" /\ att[a].error[1].tag = "NoFilesFoundError")
  /\ ~ (att[a].phase \in {"first", "nff"} /\ att[a].error[1].tag = "GistNotFoundError")
  /\ setStatusError
  /\ att' = [att EXCEPT ![a].pc = "done", ![a].finalError = att[a].error]
  /\ UNCHANGED <<envVars, configVars>>

\* catchAll: every failure no catchTag took
CatchAll(a) ==
  /\ att[a].pc = "failed"
  /\ ~ (att[a].phase = "first" /\ att[a].error[1].tag = "NoFilesFoundError")
  /\ ~ (att[a].phase \in {"first", "nff"} /\ att[a].error[1].tag = "GistNotFoundError")
  /\ setStatusError
  /\ att' = [att EXCEPT ![a].pc = "done", ![a].failureShown = @ + 1,
                        ![a].failureMessage =
                           Some(<<"Gist Sync failed: ">> \o renderError(att[a].error[1])),
                        ![a].finalError = att[a].error]
  /\ UNCHANGED <<envVars, configVars>>

(***************************************************************************)
(* Specifications.                                                         *)
(***************************************************************************)
\* every answer the collaborators can give
AnyAnswer ==
  [auth |-> AuthOutcomes, http |-> HttpOutcomes, written |-> BOOLEAN,
   editors |-> {None} \cup {Some(d) : d \in EditorDocuments}]

Init ==
  /\ workspaceFolders \in {<<>>, <<Folder>>, <<Folder, OtherFolder>>}
  /\ world = AnyAnswer
  /\ cfgFiles \in {None} \cup {Some(l) : l \in SeqsUpTo(ListedPaths, MaxFiles)}
  /\ cfgGistId \in {None, Some(""), Some("g1")}
  /\ statusText = IdleText
  /\ statusBackground = "undefined"
  /\ statusResetTimer = None
  /\ timeouts = {}
  /\ att = [a \in Attempts |-> NewAttempt]

Step(a) ==
  \/ SyncCommand(a)
  \/ PerformSyncStart(a)
  \/ ReadFile(a)
  \/ BuildPayload(a)
  \/ GetToken(a)
  \/ CreateGistEnds(a)
  \/ SetGistIdEnds(a)
  \/ UpdateGistEnds(a)
  \/ CatchNoFilesFound(a)
  \/ AddFileAnswered(a)
  \/ SetFilesToSyncEnds(a)
  \/ CatchGistNotFound(a)
  \/ CreateNewAnswered(a)
  \/ ClearGistIdEnds(a)
  \/ ShowSuccess(a)
  \/ SuccessAnswered(a)
  \/ CatchAll(a)

\* the command is invoked again only after the previous attempt has ended
Next ==
  \/ \E a \in OneAtATime : Step(a)
  \/ StatusResetTimerFires

Spec == Init /\ [][Next]_vars

\* The command handler has no guard: a second invocation starts a second fiber
\* while the first is still running.
\* Two fibers multiply the states, so the collaborators' answers are cut down to
\* one of each kind the recovery reacts to.
FewAnswers ==
  [auth |-> {"session"},
   http |-> {[kind |-> "ok", id |-> "g2", html_url |-> "https://gist.github.com/2"],
             [kind |-> "status", status |-> 404, bodyRead |-> TRUE]},
   written |-> {TRUE},
   editors |-> {None, Some(joinPath(Folder.fsPath, FileNote))}]

InitOverlap ==
  /\ workspaceFolders = <<Folder>>
  /\ world = FewAnswers
  /\ cfgFiles \in {None, Some(<<FileA>>)}
  /\ cfgGistId \in {None, Some("g1")}
  /\ statusText = IdleText
  /\ statusBackground = "undefined"
  /\ statusResetTimer = None
  /\ timeouts = {}
  /\ att = [a \in Attempts |-> NewAttempt]

NextOverlap ==
  \/ \E a \in Attempts : Step(a)
  \/ StatusResetTimerFires

SpecOverlap == InitOverlap /\ [][NextOverlap]_vars

\* Attempts one at a time in which every step that is pending is taken: files are
\* read, the collaborators answer (a timeout is an answer) and the user answers
\* each prompt. The configured lists are the ones that lead into each recovery.
InitLive ==
  /\ workspaceFolders \in {<<>>, <<Folder>>}
  /\ world = AnyAnswer
  /\ cfgFiles \in {None, Some(<<FileA>>), Some(<<FileMissing, FileNested>>)}
  /\ cfgGistId \in {None, Some("g1")}
  /\ statusText = IdleText
  /\ statusBackground = "undefined"
  /\ statusResetTimer = None
  /\ timeouts = {}
  /\ att = [a \in Attempts |-> NewAttempt]

SpecLive ==
  InitLive /\ [][Next]_vars /\ WF_vars(\E a \in OneAtATime : Step(a))

\* toGistFilename on its own: the listed name is any string of at most MaxNameLen
\* characters out of "/", "-" and a letter, the empty string included, and
\* the loop body of step 4 flattens it and stores the content under the result
NameChars == {"/", "-", "a"}

InitFlatten ==
  /\ workspaceFolders = <<Folder>>
  /\ world = AnyAnswer
  /\ cfgFiles \in {Some(<<name>>) : name \in SeqsUpTo(NameChars, MaxNameLen)}
  /\ cfgGistId = None
  /\ statusText = IdleText
  /\ statusBackground = "undefined"
  /\ statusResetTimer = None
  /\ timeouts = {}
  /\ att = [a \in Attempts |-> NewAttempt]

\* const gistFilename = toGistFilename(filename); files[gistFilename] = { content }
FlattenListed(a) ==
  /\ att[a].pc = "idle"
  /\ att[a].filenames = <<>>
  /\ LET filename == getFilesToSync[1]
         gistFilename == toGistFilename(filename)
     IN att' = [att EXCEPT ![a].filenames = getFilesToSync,
                           ![a].files = ObjSet(<<>>, gistFilename, ContentOf(filename))]
  /\ UNCHANGED <<envVars, configVars, statusVars>>

NextFlatten == \E a \in OneAtATime : FlattenListed(a)

SpecFlatten == InitFlatten /\ [][NextFlatten]_vars

(***************************************************************************)
(* Properties of one sync attempt.                                         *)
(***************************************************************************)
Ended(r) == r.pc = "done"

\* the first run of attempt record r failed with GistNotFoundError
FirstRunNotFound(r) ==
  /\ Len(r.runLog) >= 1
  /\ r.runLog[1].outcome = "GistNotFoundError"

\* C1: in one sync attempt syncFilesToGist is executed at most twice, the first
\* run plus at most one retry, whatever fails and whatever the user answers.
C1_AtMostTwoRuns == \A a \in Attempts : att[a].runs <= 2

\* C2: when the first run fails with GistNotFoundError and the user declines to
\* create a new gist, no retry is run, the settings gistId and files keep the
\* values they had when the command was invoked, and the attempt ends with that
\* GistNotFoundError as its failure.
C2_DeclinedKeepsEverything ==
  \A a \in Attempts :
    LET r == att[a] IN
    (FirstRunNotFound(r) /\ r.createNewAnswer = Some(FALSE)) =>
      /\ r.runs = 1
      /\ r.pc \in {"failed", "done"}
      /\ r.error = Some(GistNotFoundError(r.startGistId[1]))
      /\ cfgGistId = r.startGistId
      /\ cfgFiles = r.startFiles
      /\ (Ended(r) => r.finalError = r.error /\ r.failureShown = 1 /\ r.successShown = 0)

C2_Witness ==
  \E a \in Attempts :
    /\ FirstRunNotFound(att[a])
    /\ att[a].createNewAnswer = Some(FALSE)
    /\ Ended(att[a])

\* C3: in one sync attempt the "Create New Gist" prompt is shown at most once, and
\* a GistNotFoundError of the run that handleGistNotFound started ends the
\* attempt: it is the last run, no prompt follows it, and the failure shown is
\* that GistNotFoundError.
C3_RetryNotFoundIsTerminal ==
  \A a \in Attempts :
    LET r == att[a] IN
    /\ r.createNewPrompts <= 1
    /\ \A i \in 1..Len(r.runLog) :
         (r.runLog[i].phase = "gnf" /\ r.runLog[i].outcome = "GistNotFoundError") =>
           /\ i = Len(r.runLog)
           /\ r.runs = i
           /\ r.createNewPrompts = 1
           /\ r.pc \in {"failed", "done"}
           /\ r.error[1].tag = "GistNotFoundError"
           /\ (Ended(r) => r.finalError = r.error /\ r.failureShown = 1)

C3_Witness ==
  \E a \in Attempts :
    /\ Ended(att[a])
    /\ \E i \in 1..Len(att[a].runLog) :
         /\ att[a].runLog[i].phase = "gnf"
         /\ att[a].runLog[i].outcome = "GistNotFoundError"

\* what C4 says of an attempt record r whose retry has been started
RetryTakesCreatePath(r) ==
  /\ r.phase = "gnf"
  /\ r.runs = 2 =>
       /\ r.runStartGistId = Some("")
       /\ \A i \in 1..Len(r.apiCalls) : r.apiCalls[i].op = "createGist"
       /\ IsSome(r.result) =>
            /\ r.result[1].isNew
            /\ r.result[1].gistId = r.response[1].id
            /\ cfgGistId = Some(r.response[1].id)

\* C4 as stated: when the first run fails with GistNotFoundError and the user
\* confirms, the id is cleared before the retry starts, the retry runs exactly
\* once and calls createGist, never updateGist; if it succeeds the result has
\* isNew = TRUE and the stored id is the one createGist returned.
C4_ConfirmedRetriesOnce ==
  \A a \in Attempts :
    LET r == att[a] IN
    (FirstRunNotFound(r) /\ r.createNewAnswer = Some(TRUE) /\ Ended(r)) =>
      /\ r.runs = 2
      /\ RetryTakesCreatePath(r)

\* C4 amended: the same, provided the write that clears the id succeeds; when
\* that write fails no retry is run, the id is unchanged and the attempt fails
\* with ConfigWriteError.
C4_ConfirmedRetriesOnceIfCleared ==
  \A a \in Attempts :
    LET r == att[a] IN
    (FirstRunNotFound(r) /\ r.createNewAnswer = Some(TRUE)) =>
      /\ r.clearWritten = None => r.pc = "clearGistId" /\ r.runs = 1
      /\ r.clearWritten = Some(FALSE) =>
           /\ r.runs = 1
           /\ r.pc \in {"failed", "done"}
           /\ r.error = Some(ConfigWriteError)
           /\ cfgGistId = r.startGistId
      /\ r.clearWritten = Some(TRUE) =>
           /\ r.runs = 2 \/ (r.runs = 1 /\ r.pc = "performSync" /\ cfgGistId = Some(""))
           /\ RetryTakesCreatePath(r)
           /\ Ended(r) => r.runs = 2

C4_Witness ==
  \E a \in Attempts :
    /\ FirstRunNotFound(att[a])
    /\ att[a].createNewAnswer = Some(TRUE)
    /\ att[a].clearWritten = Some(TRUE)
    /\ Ended(att[a])
    /\ IsSome(att[a].result)

(***************************************************************************)
(* Properties of one run of syncFilesToGist.                               *)
(***************************************************************************)
\* the Path Safety Check accepts the listed path and the File Reader can read it
SafeAndReadable(root, filename) ==
  /\ isPathSafe(root, joinPath(root, filename))
  /\ joinPath(root, filename) \in ReadableFiles

\* the positions of the list whose path is safe and readable
SafeReadablePositions(filenames) ==
  {i \in 1..Len(filenames) : SafeAndReadable(Folder.fsPath, filenames[i])}

\* the failures left to a run that has read a file: of the credential, of the
\* remote call, of the write that persists the id
LaterFailures ==
  {"AuthError", "HttpError", "GistNotFoundError", "TimeoutError", "ConfigWriteError"}

\* C5 as stated: for every list (duplicates and colliding paths included) with a
\* safe and readable path, the run fails only after the files are read, and a
\* result has fileCount = the number of listed paths that are safe and readable.
C5_FileCountIsListedPaths ==
  \A a \in Attempts :
    LET r == att[a] IN
    /\ \A i \in 1..Len(r.runLog) :
         SafeReadablePositions(r.runLog[i].filenames) # {} =>
           r.runLog[i].outcome \in {"ok"} \cup LaterFailures
    /\ IsSome(r.result) =>
         r.result[1].fileCount = Cardinality(SafeReadablePositions(r.filenames))

\* C5 amended: fileCount is the number of distinct flattened names of the listed
\* paths that are safe and readable (a path listed twice, or two paths with one
\* flattened name, count once); the title entry is not counted.
C5_FileCountIsDistinctKeys ==
  \A a \in Attempts :
    LET r == att[a] IN
    /\ \A i \in 1..Len(r.runLog) :
         SafeReadablePositions(r.runLog[i].filenames) # {} =>
           r.runLog[i].outcome \in {"ok"} \cup LaterFailures
    /\ IsSome(r.result) =>
         r.result[1].fileCount =
           Cardinality({toGistFilename(r.filenames[i]) :
                          i \in SafeReadablePositions(r.filenames)})

C5_Witness ==
  \E a \in Attempts :
    /\ IsSome(att[a].result)
    /\ Ended(att[a])
    /\ att[a].result[1].fileCount = 1
    /\ Cardinality(SafeReadablePositions(att[a].filenames)) = 2

\* C6: a run whose listed paths are all unsafe or unreadable fails with
\* NoFilesFoundError, before any token or remote call; every SyncResult has
\* fileCount >= 1.
C6_NothingReadIsNoFilesFound ==
  \A a \in Attempts :
    LET r == att[a] IN
    /\ \A i \in 1..Len(r.runLog) :
         (r.runLog[i].outcome # "NoWorkspaceError"
            /\ SafeReadablePositions(r.runLog[i].filenames) = {}) =>
           /\ r.runLog[i].outcome = "NoFilesFoundError"
           /\ r.runLog[i].apiCalls = <<>>
    /\ (r.pc \in {"getToken", "createGist", "updateGist", "setGistId"}) =>
         SafeReadablePositions(r.filenames) # {}
    /\ IsSome(r.result) => r.result[1].fileCount >= 1

C6_Witness ==
  \E a \in Attempts :
    \E i \in 1..Len(att[a].runLog) :
      LET e == att[a].runLog[i] IN
      /\ e.outcome = "NoFilesFoundError"
      /\ \E j \in 1..Len(e.filenames) :
           ~isPathSafe(Folder.fsPath, joinPath(Folder.fsPath, e.filenames[j]))
      /\ \E j \in 1..Len(e.filenames) :
           /\ isPathSafe(Folder.fsPath, joinPath(Folder.fsPath, e.filenames[j]))
           /\ joinPath(Folder.fsPath, e.filenames[j]) \notin ReadableFiles

\* C7: every payload handed to createGist or updateGist holds the user files and
\* one metadata entry more: fileCount + 1 entries, hence at least 2.
C7_PayloadIsFilesPlusTitle ==
  \A a \in Attempts :
    \A i \in 1..Len(att[a].apiCalls) :
      /\ Len(att[a].apiCalls[i].files) = Len(ObjKeys(att[a].files)) + 1
      /\ Len(att[a].apiCalls[i].files) >= 2

\* C8: a listed path that resolves outside the workspace root is never read and
\* its content never appears in the payload.
C8_OutsideRootNeverRead ==
  \A a \in Attempts :
    LET r == att[a] IN
    /\ \A i \in 1..Len(r.reads) : LiesWithin(r.workspace[1].fsPath, r.reads[i])
    /\ \A i \in 1..Len(r.payload) :
         \A f \in ReadableFiles :
           r.payload[i].content = ContentOf(f) => LiesWithin(r.workspace[1].fsPath, f)

\* C9: a run that starts with no stored id (unset or "") and succeeds has called
\* createGist once and updateGist never, has handed the returned id to setGistId,
\* which stored it, and returns isNew = TRUE with the id and url of the response.
C9_CreatePath ==
  \A a \in Attempts :
    LET r == att[a] IN
    (IsSome(r.result) /\ r.runStartGistId \in {None, Some("")}) =>
      /\ r.apiCalls = <<[op |-> "createGist", files |-> r.payload]>>
      /\ r.setGistIdCalls = <<r.response[1].id>>
      /\ cfgGistId = Some(r.response[1].id)
      /\ r.result[1].isNew
      /\ r.result[1].gistId = r.response[1].id
      /\ r.result[1].gistUrl = r.response[1].html_url

C9_Witness ==
  \E a \in Attempts :
    /\ IsSome(att[a].result)
    /\ att[a].runStartGistId = Some("")
    /\ att[a].phase = "first"
    /\ Ended(att[a])

\* C10: a run that starts with a stored id and succeeds has called updateGist
\* once, with that id, and createGist never, returns isNew = FALSE, and has not
\* called setGistId: the stored id is the same whatever id the response carries.
C10_UpdatePath ==
  \A a \in Attempts :
    LET r == att[a] IN
    (IsSome(r.result) /\ IsSome(r.runStartGistId) /\ r.runStartGistId # Some("")) =>
      /\ r.apiCalls = <<[op |-> "updateGist", gistId |-> r.runStartGistId[1],
                         files |-> r.payload]>>
      /\ ~r.result[1].isNew
      /\ r.result[1].gistId = r.response[1].id
      /\ r.setGistIdCalls = <<>>
      /\ cfgGistId = r.runStartGistId

C10_Witness ==
  \E a \in Attempts :
    /\ IsSome(att[a].result)
    /\ IsSome(att[a].runStartGistId)
    /\ att[a].runStartGistId # Some("")
    /\ att[a].result[1].gistId # att[a].runStartGistId[1]
    /\ Ended(att[a])

(***************************************************************************)
(* Properties of the remote calls.                                         *)
(***************************************************************************)
\* the finished runs of attempt record r that called createGist or updateGist
\* and saw the call end
CallsEnded(r) == {i \in 1..Len(r.runLog) : IsSome(r.runLog[i].fetched)}

\* C11: an updateGist call answered with status 404 fails with GistNotFoundError
\* carrying the id passed to the call; any other non-2xx status of updateGist and
\* every non-2xx status of createGist, 404 included, fails with HttpError
\* carrying that status; the run fails with that error, and no run that called
\* createGist fails with GistNotFoundError.
C11_NotFoundOnlyFromUpdate404 ==
  \A a \in Attempts :
    \A i \in CallsEnded(att[a]) :
      LET e == att[a].runLog[i]
          call == e.apiCalls[1]
          f == e.fetched[1]
      IN /\ f.outcome.kind = "status" =>
              /\ ~f.ok
              /\ e.outcome = f.error[1].tag
              /\ IF call.op = "updateGist" /\ f.outcome.status = 404
                 THEN f.error = Some(GistNotFoundError(call.gistId))
                 ELSE /\ f.error[1].tag = "HttpError"
                      /\ f.error[1].status = f.outcome.status
         /\ call.op = "createGist" => e.outcome # "GistNotFoundError"

C11_Witness ==
  \E a \in Attempts :
    LET r == att[a] IN
    /\ Len(r.runLog) = 2
    /\ CallsEnded(r) = {1, 2}
    /\ r.runLog[1].apiCalls[1].op = "updateGist"
    /\ r.runLog[1].fetched[1].outcome.kind = "status"
    /\ r.runLog[1].fetched[1].outcome.status = 404
    /\ ~r.runLog[1].fetched[1].outcome.bodyRead
    /\ r.runLog[2].apiCalls[1].op = "createGist"
    /\ r.runLog[2].fetched[1].outcome.kind = "status"
    /\ r.runLog[2].fetched[1].outcome.status = 404

\* attempt record r has been started and has not ended
InFlight(r) == r.pc \notin {"idle", "done"}

\* C12: no two sync attempts are in flight together: while one attempt has not
\* ended, invoking the command again starts no second run of syncFilesToGist.
C12_OneAttemptInFlight ==
  \A a, b \in Attempts :
    (a # b /\ InFlight(att[a]) /\ att[a].runs >= 1) =>
      ~(InFlight(att[b]) /\ att[b].runs >= 1)

\* C13: a createGist or updateGist call that gets no answer within FETCH_TIMEOUT,
\* the fetch or the reading of the body pending, fails with TimeoutError carrying
\* the operation's name and 30000 ms, and controller.abort() has been called
\* when the run fails.
C13_TimeoutAbortsTheRequest ==
  \A a \in Attempts :
    \A i \in CallsEnded(att[a]) :
      LET e == att[a].runLog[i]
          f == e.fetched[1]
      IN f.outcome.kind = "timeout" =>
           /\ e.outcome = "TimeoutError"
           /\ f.error = Some(TimeoutError(e.apiCalls[1].op, 30000))
           /\ f.aborted

\* C14: controller.abort() has been called whenever a createGist or updateGist
\* call has ended, with a response, with a failure or with a timeout.
C14_AbortOnEveryExit ==
  \A a \in Attempts :
    \A i \in CallsEnded(att[a]) : att[a].runLog[i].fetched[1].aborted

\* the create path of the current run of r got its gist, the write of the id has
\* ended, and the setting does not hold the id
PersistFailed(r) ==
  /\ r.pc \in {"failed", "succeeded", "showSuccess", "done"}
  /\ r.apiCalls # <<>>
  /\ r.apiCalls[1].op = "createGist"
  /\ IsSome(r.fetched)
  /\ r.fetched[1].ok
  /\ cfgGistId # Some(r.response[1].id)

\* C15: when createGist succeeds and the write of the returned id fails, the run
\* fails with ConfigWriteError and returns no SyncResult, no success message is
\* shown, and the setting gistId is still absent (unset or ""); no run that
\* called updateGist fails with ConfigWriteError.
C15_PersistFailureFailsTheRun ==
  \A a \in Attempts :
    LET r == att[a] IN
    /\ PersistFailed(r) =>
         /\ r.error = Some(ConfigWriteError)
         /\ r.runLog[Len(r.runLog)].outcome = "ConfigWriteError"
         /\ IsNone(r.result)
         /\ r.successShown = 0
         /\ cfgGistId \in {None, Some("")}
         /\ Ended(r) => r.finalError = Some(ConfigWriteError) /\ r.failureShown = 1
    /\ \A i \in 1..Len(r.runLog) :
         r.runLog[i].outcome = "ConfigWriteError" =>
           /\ r.runLog[i].apiCalls # <<>>
           /\ r.runLog[i].apiCalls[1].op = "createGist"

C15_Witness ==
  \E a \in Attempts :
    /\ PersistFailed(att[a])
    /\ Ended(att[a])
    /\ cfgGistId = Some("")

(***************************************************************************)
(* Properties of the NoFilesFound recovery.                                *)
(***************************************************************************)
\* handleNoFilesFound has been entered for the first run of r
NoFilesFoundCaught(r) ==
  /\ Len(r.runLog) >= 1
  /\ r.runLog[1].outcome = "NoFilesFoundError"
  /\ r.phase # "first"

\* the list the command found configured, the default when none is
ListAtStart(r) ==
  IF IsSome(r.startFiles) /\ r.startFiles[1] # <<>> THEN r.startFiles[1]
  ELSE <<DefaultFile>>

\* the list with path at its end, unless path is one of its entries
WithPathAtEnd(list, path) ==
  IF \E i \in 1..Len(list) : list[i] = path THEN list ELSE list \o <<path>>

\* the runs handleNoFilesFound started
RunsOfAddFile(r) == {i \in 1..Len(r.runLog) : r.runLog[i].phase = "nff"}

\* C16: when the active document matches the allow-list and the user answers
\* "Add File", the attempt ends with gistSync.files holding the previous list
\* with the document's path appended, or the previous list itself when it
\* held the path, and handleNoFilesFound has run syncFilesToGist once.
C16_AddFileAppendsAndRetries ==
  \A a \in Attempts :
    LET r == att[a] IN
    (NoFilesFoundCaught(r) /\ r.addFileAnswer = Some(TRUE) /\ Ended(r)) =>
      /\ cfgFiles = Some(WithPathAtEnd(ListAtStart(r), r.relativePath))
      /\ Cardinality(RunsOfAddFile(r)) = 1

\* C16 amended: the same once the write of the list has succeeded; when that
\* write fails the list is unchanged, no retry is run and the attempt fails
\* with ConfigWriteError.
C16_AddFileAppendsAndRetriesIfWritten ==
  \A a \in Attempts :
    LET r == att[a] IN
    /\ (NoFilesFoundCaught(r) /\ r.filesWritten = Some(TRUE)) =>
         /\ r.addFileAnswer = Some(TRUE)
         /\ cfgFiles = Some(WithPathAtEnd(ListAtStart(r), r.relativePath))
         /\ Cardinality(RunsOfAddFile(r)) <= 1
         /\ Ended(r) => Cardinality(RunsOfAddFile(r)) = 1
    /\ (NoFilesFoundCaught(r) /\ r.filesWritten = Some(FALSE)) =>
         /\ cfgFiles = r.startFiles
         /\ r.runs = 1
         /\ r.error = Some(ConfigWriteError)
         /\ Ended(r) => r.finalError = Some(ConfigWriteError)

C16_Witness ==
  \E a \in Attempts :
    LET r == att[a] IN
    /\ NoFilesFoundCaught(r)
    /\ r.filesWritten = Some(TRUE)
    /\ Ended(r)
    /\ r.startFiles = Some(<<FileMissing>>)
    /\ r.relativePath = FileMissing

\* the active document is missing or its name matches no allowed extension
NoMatchingDocument(r) ==
  \/ IsNone(r.activeEditor)
  \/ ~fileMatchesExtensions(r.activeEditor[1], getStatusBarExtensions)

\* C17: when there is no active document, or it does not match the allow-list,
\* or the user answers "Cancel", syncFilesToGist has run once, gistSync.files
\* and gistSync.gistId keep their values, and the attempt fails with the
\* NoFilesFoundError of the first run.
C17_NoRetryWithoutAddedFile ==
  \A a \in Attempts :
    LET r == att[a] IN
    (NoFilesFoundCaught(r)
       /\ r.pc # "promptAddFile"
       /\ (NoMatchingDocument(r) \/ r.addFileAnswer = Some(FALSE))) =>
      /\ r.runs = 1
      /\ r.pc \in {"failed", "done"}
      /\ cfgFiles = r.startFiles
      /\ cfgGistId = r.startGistId
      /\ r.error = Some(NoFilesFoundError)
      /\ Ended(r) => r.finalError = Some(NoFilesFoundError) /\ r.failureShown = 1

C17_Witness ==
  \E a \in Attempts :
    /\ NoFilesFoundCaught(att[a])
    /\ att[a].addFileAnswer = Some(FALSE)
    /\ Ended(att[a])

\* C18: in each of the three cases of C17 the guidance message ("Open a file
\* with extension ... to sync, or configure files in settings.") has been shown.
C18_GuidanceInEveryNonRetryCase ==
  \A a \in Attempts :
    LET r == att[a] IN
    (NoFilesFoundCaught(r)
       /\ r.pc # "promptAddFile"
       /\ (NoMatchingDocument(r) \/ r.addFileAnswer = Some(FALSE))) =>
      r.guidanceShown = 1

\* C19: when the first run fails with NoWorkspaceError, AuthError,
\* ConfigWriteError, HttpError or TimeoutError, syncFilesToGist has run once, no
\* prompt is shown, the recovery writes no setting, and the attempt ends with
\* the message "Gist Sync failed: " followed by the rendered error.
C19_OtherFailuresEndTheAttempt ==
  \A a \in Attempts :
    LET r == att[a] IN
    (Len(r.runLog) >= 1
       /\ r.runLog[1].outcome \in {"NoWorkspaceError", "AuthError", "ConfigWriteError",
                                   "HttpError", "TimeoutError"}) =>
      /\ r.runs = 1
      /\ r.pc \in {"failed", "done"}
      /\ r.createNewPrompts = 0
      /\ r.addFilePrompts = 0
      /\ r.phase = "first"
      /\ r.clearWritten = None
      /\ r.filesWritten = None
      /\ cfgFiles = r.startFiles
      /\ r.error[1].tag = r.runLog[1].outcome
      /\ Ended(r) =>
           /\ r.failureShown = 1
           /\ r.successShown = 0
           /\ r.guidanceShown = 0
           /\ r.finalError = r.error
           /\ r.failureMessage = Some(<<"Gist Sync failed: ">> \o renderError(r.error[1]))

C19_Witness ==
  \E a \in Attempts :
    /\ Len(att[a].runLog) = 1
    /\ att[a].runLog[1].outcome = "TimeoutError"
    /\ Ended(att[a])

(***************************************************************************)
(* Properties of toGistFilename.                                           *)
(***************************************************************************)
\* C20: toGistFilename gives a name of the same length that has "-" where the
\* input has "/" and the input's character everywhere else, so a name without
\* "/" (the empty name too) comes back unchanged, a run of slashes becomes a
\* run of dashes, and flattening the result again changes nothing.
C20_FlattenReplacesEverySlash ==
  \A a \in OneAtATime :
    (att[a].pc = "idle" /\ att[a].filenames # <<>>) =>
      LET name == att[a].filenames[1]
          flat == ObjKeys(att[a].files)[1]
      IN /\ Len(flat) = Len(name)
         /\ \A i \in 1..Len(name) :
              /\ name[i] = "/" => flat[i] = "-"
              /\ name[i] # "/" => flat[i] = name[i]
         /\ (\A i \in 1..Len(name) : name[i] # "/") => flat = name
         /\ toGistFilename(flat) = flat

C20_Witness ==
  \E a \in OneAtATime :
    /\ att[a].pc = "idle"
    /\ att[a].filenames = << <<"a", "/", "/", "a">> >>
    /\ ObjKeys(att[a].files) = << <<"a", "-", "-", "a">> >>

(***************************************************************************)
(* Properties of the payload.                                              *)
(***************************************************************************)
\* C21: no key of files, the user files of the payload, holds a path separator,
\* "/" or "\": each is the listed path with every separator replaced by "-".
C21_NoSeparatorInKeys ==
  \A a \in Attempts :
    \A k \in {ObjKeys(att[a].files)[i] : i \in 1..Len(ObjKeys(att[a].files))} :
      \A i \in 1..Len(k) : k[i] \notin {"/", "\\"}

\* the positions of the list the loop of step 4 has gone through
Visited(r) == 1..(r.idx - 1)

\* C22: files holds one entry per key, and the content under a key is that of
\* the last path in list order, among the safe and readable paths read so far,
\* that flattens to the key: a later path overwrites an earlier one.
C22_LaterPathOverwrites ==
  \A a \in Attempts :
    LET r == att[a]
        keys == ObjKeys(r.files)
    IN /\ \A i, j \in 1..Len(keys) : keys[i] = keys[j] => i = j
       /\ \A n \in 1..Len(keys) :
            LET from == {i \in SafeReadablePositions(r.filenames) \cap Visited(r) :
                           toGistFilename(r.filenames[i]) = keys[n]}
                last == CHOOSE i \in from : \A j \in from : j <= i
            IN /\ from # {}
               /\ r.files[n].content =
                    ContentOf(joinPath(Folder.fsPath, r.filenames[last]))

C22_Witness ==
  \E a \in Attempts :
    /\ att[a].filenames = <<FileNested, FileDashed>>
    /\ Len(att[a].files) = 1
    /\ att[a].files[1].content = ContentOf(joinPath(Folder.fsPath, FileDashed))
    /\ att[a].apiCalls # <<>>
    /\ Ended(att[a])

\* the flattened names of the safe and readable paths of a list, in list order
RECURSIVE ReadNames(_)
ReadNames(filenames) ==
  IF filenames = <<>> THEN <<>>
  ELSE (IF SafeAndReadable(Folder.fsPath, Head(filenames))
        THEN <<toGistFilename(Head(filenames))>> ELSE <<>>)
       \o ReadNames(Tail(filenames))

\* a sequence without the repetitions of its elements
RECURSIVE FirstOccurrences(_)
FirstOccurrences(seq) ==
  IF seq = <<>> THEN <<>>
  ELSE LET before == FirstOccurrences(SubSeq(seq, 1, Len(seq) - 1))
       IN IF \E i \in 1..Len(before) : before[i] = seq[Len(seq)]
          THEN before ELSE Append(before, seq[Len(seq)])

NamedKeys(keys) == SelectSeq(keys, LAMBDA k : ~IsArrayIndex(k))

C24_EmptyIdIsAbsent ==
  /\ IsNone(getGistId) <=> cfgGistId \in {None, Some("")}
  /\ IsSome(getGistId) => getGistId = cfgGistId
  /\ \A a \in Attempts :
       LET r == att[a] IN
       /\ (IsSome(r.result) /\ r.result[1].isNew) =>
            getGistId = Some(r.result[1].gistId)
       /\ (r.clearWritten = Some(TRUE) /\ r.pc = "performSync") =>
            cfgGistId = Some("") /\ IsNone(getGistId)
       /\ (r.clearWritten = Some(TRUE) /\ r.pc # "performSync" /\ r.apiCalls # <<>>) =>
            r.apiCalls[1].op = "createGist" /\ IsNone(r.existingGistId)

C24_Witness ==
  \E a \in Attempts :
    /\ att[a].clearWritten = Some(TRUE)
    /\ att[a].startGistId = Some("g1")
    /\ IsSome(att[a].result)
    /\ cfgGistId = Some("g2")
    /\ Ended(att[a])

\* a run of r has resolved the workspace and read the list, and r has not
\* moved on to another run
ListRead(r) == r.pc \notin {"idle", "performSync"} /\ IsSome(r.workspace)

\* C25: the list a run works on is the configured list when that is non-empty
\* and <<"TODO.md">> when the setting is unset or empty; it is never empty.
C25_DefaultListWhenEmpty ==
  \A a \in Attempts :
    LET r == att[a] IN
    ListRead(r) =>
      /\ r.filenames # <<>>
      /\ r.filenames = IF cfgFiles \in {None, Some(<<>>)} THEN <<DefaultFile>>
                       ELSE cfgFiles[1]

C25_Witness ==
  \E a \in Attempts :
    /\ ListRead(att[a])
    /\ cfgFiles = Some(<<>>)
    /\ att[a].filenames = <<DefaultFile>>
    /\ Ended(att[a])

\* the absolute paths of the listed paths that isPathSafe accepts, in list order
RECURSIVE AcceptedPaths(_)
AcceptedPaths(filenames) ==
  IF filenames = <<>> THEN <<>>
  ELSE (IF isPathSafe(Folder.fsPath, joinPath(Folder.fsPath, Head(filenames)))
        THEN <<joinPath(Folder.fsPath, Head(filenames))>> ELSE <<>>)
       \o AcceptedPaths(Tail(filenames))

\* C26: a file that cannot be read is only skipped: once the loop is over, every
\* listed path isPathSafe accepts has been handed to readFile, in list order,
\* the ones after an unreadable file too, files holds the readable ones, and
\* the run fails with NoFilesFoundError only when files is empty.
C26_UnreadableFileIsSkipped ==
  \A a \in Attempts :
    LET r == att[a] IN
    /\ (ListRead(r) /\ r.pc # "readFile") =>
         /\ r.reads = AcceptedPaths(r.filenames)
         /\ {r.files[i].key : i \in 1..Len(r.files)}
              = {ReadNames(r.filenames)[i] : i \in 1..Len(ReadNames(r.filenames))}
         /\ r.files # <<>> => r.error # Some(NoFilesFoundError)
    /\ (ListRead(r) /\ r.pc = "readFile") =>
         r.reads = AcceptedPaths(SubSeq(r.filenames, 1, r.idx - 1))

C26_Witness ==
  \E a \in Attempts :
    /\ att[a].filenames = <<FileMissing, FileA>>
    /\ att[a].reads = <<joinPath(Folder.fsPath, FileMissing), joinPath(Folder.fsPath, FileA)>>
    /\ ObjKeys(att[a].files) = <<FileA>>
    /\ IsSome(att[a].result)
    /\ Ended(att[a])

\* C27: with no workspace folder open the run fails with NoWorkspaceError and
\* has read no file, asked for no token, called neither createGist nor
\* updateGist and written no setting; with folders open the workspace root is
\* the first of them and every file read lies under its path.
C27_NoWorkspaceStopsTheRun ==
  \A a \in Attempts :
    LET r == att[a] IN
    /\ (workspaceFolders = <<>> /\ r.pc \notin {"idle", "performSync"}) =>
         /\ r.error = Some(NoWorkspaceError)
         /\ r.runs = 1
         /\ r.runLog[1].outcome = "NoWorkspaceError"
         /\ r.steps = <<"getWorkspaceRoot">>
         /\ r.reads = <<>>
         /\ IsNone(r.session)
         /\ r.apiCalls = <<>>
         /\ r.requests = <<>>
         /\ r.setGistIdCalls = <<>>
         /\ r.clearWritten = None
         /\ r.filesWritten = None
         /\ cfgFiles = r.startFiles
         /\ cfgGistId = r.startGistId
    /\ (workspaceFolders # <<>> /\ r.pc \notin {"idle", "performSync"}) =>
         /\ r.workspace = Some(Head(workspaceFolders))
         /\ \A i \in 1..Len(r.reads) : StartsWith(r.reads[i], Head(workspaceFolders).fsPath)

C27_Witness ==
  \E a \in Attempts :
    /\ workspaceFolders = <<>>
    /\ att[a].error = Some(NoWorkspaceError)
    /\ Ended(att[a])

\* the four headers of a request made with token
HeadersWith(hs, token) ==
  /\ DOMAIN hs = {"Accept", "Authorization", "Content-Type", "X-GitHub-Api-Version"}
  /\ hs["Accept"] = <<"application/vnd.github+json">>
  /\ hs["Authorization"] = <<"Bearer ", token>>
  /\ hs["Content-Type"] = <<"application/json">>
  /\ hs["X-GitHub-Api-Version"] = <<"2022-11-28">>

\* C28: the POST of createGist and the PATCH of updateGist carry the same four
\* headers, the Authorization built from the token; the POST body holds
\* description, files and public = FALSE, the PATCH body description and files
\* and no visibility field.
C28_RequestHeadersAndBody ==
  \A a \in Attempts :
    LET r == att[a] IN
    /\ Len(r.requests) = Len(r.apiCalls)
    /\ \A n \in 1..Len(r.requests) :
         LET req == r.requests[n] IN
         /\ HeadersWith(req.headers, r.token[1])
         /\ req.body.files = r.payload
         /\ req.body.description = r.workspace[1].name \o TitleSuffix
         /\ IF r.apiCalls[n].op = "createGist"
            THEN /\ req.method = "POST"
                 /\ req.url = <<GIST_API_BASE>>
                 /\ DOMAIN req.body = {"description", "files", "public"}
                 /\ req.body.public = FALSE
            ELSE /\ req.method = "PATCH"
                 /\ req.url = <<GIST_API_BASE, r.apiCalls[n].gistId>>
                 /\ DOMAIN req.body = {"description", "files"}

C28_Witness ==
  \E a \in Attempts :
    /\ att[a].requests # <<>>
    /\ att[a].requests[1].method = "PATCH"
    /\ IsSome(att[a].result)
    /\ Ended(att[a])

\* C29: getToken gives the session's access token, or fails with AuthError when
\* getSession gives null, throws an Error or throws something else; the run then
\* fails with that AuthError, has called neither createGist nor updateGist and
\* has written no setting.
C29_NoTokenIsAuthError ==
  \A a \in Attempts :
    LET r == att[a] IN
    IsSome(r.session) =>
      IF r.session = Some("session")
      THEN r.token = Some("token")
      ELSE /\ IsNone(r.token)
           /\ r.error[1].tag = "AuthError"
           /\ r.runLog[Len(r.runLog)].outcome = "AuthError"
           /\ r.apiCalls = <<>>
           /\ r.requests = <<>>
           /\ r.setGistIdCalls = <<>>
           /\ cfgGistId = r.runStartGistId
           /\ IsNone(r.result)
           /\ Ended(r) => r.finalError = r.error /\ r.successShown = 0

C29_Witness ==
  \E a \in Attempts :
    /\ att[a].session = Some("throwsOther")
    /\ att[a].phase = "nff"
    /\ Ended(att[a])

\* the place of a step in the order of syncFilesToGist
StepRank(step) ==
  CASE step = "getWorkspaceRoot" -> 1
    [] step = "getFilesToSync" -> 2
    [] step \in {"isPathSafe", "readFile"} -> 3
    [] step = "emptyCheck" -> 4
    [] step = "getToken" -> 5
    [] step = "getGistId" -> 6
    [] step \in {"createGist", "updateGist"} -> 7
    [] step = "setGistId" -> 8

\* C30: the steps of a run are taken in the order workspace root, list, files
\* in list order, empty check, token, gist id, remote call: no step comes
\* before an earlier one, none but the file steps is repeated or left out, the
\* token is asked for only with a file read, and createGist or updateGist is
\* called only with a file read and a token.
C30_StepsInOrder ==
  \A a \in Attempts :
    LET r == att[a]
        taken == {r.steps[i] : i \in 1..Len(r.steps)}
    IN /\ \A i, j \in 1..Len(r.steps) :
            i < j => /\ StepRank(r.steps[i]) <= StepRank(r.steps[j])
                     /\ StepRank(r.steps[i]) # 3 => r.steps[i] # r.steps[j]
       /\ \A i \in 1..Len(r.steps) :
            \A k \in (1..(StepRank(r.steps[i]) - 1)) \ {3} :
              \E j \in 1..(i - 1) : StepRank(r.steps[j]) = k
       /\ "getToken" \in taken => r.files # <<>> /\ "readFile" \in taken
       /\ r.apiCalls # <<>> =>
            /\ {"createGist", "updateGist"} \cap taken # {}
            /\ r.files # <<>>
            /\ IsSome(r.token)
       /\ {"createGist", "updateGist"} \cap taken # {} => r.apiCalls # <<>>
       /\ (r.files = <<>> /\ r.pc \notin {"idle", "performSync", "readFile"}) =>
            IsNone(r.session)

C30_Witness ==
  \E a \in Attempts :
    /\ att[a].steps = <<"getWorkspaceRoot", "getFilesToSync", "isPathSafe",
                        "isPathSafe", "readFile", "emptyCheck", "getToken",
                        "getGistId", "updateGist">>
    /\ Ended(att[a])

(***************************************************************************)
(* Properties of overlapping attempts, of the key order and of the status. *)
(***************************************************************************)
\* C31: a SyncResult has isNew = TRUE exactly when gistSync.gistId was unset or
\* "" when the run that returned it started, whatever another attempt writes
\* between that start and the run's own reading of the id.
C31_IsNewIffNoIdAtStart ==
  \A a \in Attempts :
    LET r == att[a] IN
    IsSome(r.result) =>
      (r.result[1].isNew <=> r.runStartGistId \in {None, Some("")})

\* C32: in every files object handed to createGist or updateGist the first key is
\* the title key and its content is the metadata, whatever the names of the
\* user files are.
C32_TitleIsFirstKey ==
  \A a \in Attempts :
    \A c \in 1..Len(att[a].apiCalls) :
      LET files == att[a].apiCalls[c].files IN
      /\ files[1].key = titleFilename(att[a].workspace[1].name)
      /\ files[1].content = metadata(att[a].files)

\* C33: every status transition clears the pending reset: at most one timer is
\* pending, a timer is pending only while the status shows "Synced", with the
\* handle in statusResetTimer, and so the reset never replaces the text of a
\* later "Syncing..." or "Sync Failed".
C33_ResetOnlyWhileSynced ==
  /\ Cardinality(timeouts) <= 1
  /\ timeouts # {} =>
       /\ statusText = SyncedText
       /\ statusBackground = "undefined"
       /\ statusResetTimer \in {Some(handle) : handle \in timeouts}
  /\ statusText \in {SyncingText, FailedText} => ~ENABLED StatusResetTimerFires

C33_Witness ==
  /\ statusText = FailedText
  /\ timeouts = {}
  /\ \E a, b \in Attempts :
       /\ a # b
       /\ att[a].pc = "done"
       /\ att[a].successShown = 1
       /\ att[b].pc = "done"
       /\ att[b].failureShown = 1

\* attempt record r ends with status text in one of the two ways
EndsInOneWay(r, text) ==
  \/ /\ r.successShown = 1
     /\ r.failureShown = 0
     /\ IsNone(r.failureMessage)
     /\ text = SyncedText
  \/ /\ r.successShown = 0
     /\ r.failureShown = 1
     /\ r.failureMessage = Some(<<"Gist Sync failed: ">> \o renderError(r.finalError[1]))
     /\ text = FailedText

\* C34: an attempt whose pending steps are all taken ends, and at the step that
\* ends it either the success message has been shown once and the status shows
\* "Synced", or the "Gist Sync failed: ..." message has been shown once and the
\* status shows "Sync Failed"; an ended attempt has shown one of the two
\* messages, never both.
C34_AttemptEndsInOneWay ==
  /\ \A a \in OneAtATime : InFlight(att[a]) ~> Ended(att[a])
  /\ [][\A a \in OneAtATime :
          (~Ended(att[a]) /\ Ended(att[a])') => EndsInOneWay(att[a], statusText)']_vars
  /\ [](\A a \in OneAtATime :
          Ended(att[a]) => att[a].successShown + att[a].failureShown = 1)

C34_Witness ==
  \E a \in OneAtATime :
    /\ Ended(att[a])
    /\ att[a].runs = 3
    /\ att[a].successShown = 1
    /\ statusText = SyncedText

\* the stored id is written by attempt a's create path with the returned id
StoredByCreate(a) ==
  /\ att[a].pc = "setGistId"
  /\ att[a].apiCalls[Len(att[a].apiCalls)].op = "createGist"
  /\ att[a].fetched[1].ok
  /\ cfgGistId' = Some(att[a].response[1].id)

\* the stored id is emptied by attempt a's confirmed recovery
EmptiedByRecovery(a) ==
  /\ att[a].pc = "clearGistId"
  /\ att[a].createNewAnswer = Some(TRUE)
  /\ IsSome(att[a].error)
  /\ att[a].error[1].tag = "GistNotFoundError"
  /\ cfgGistId' = Some("")

\* C35: a step changes the stored gist id only when it is the write after a
\* successful create, which stores the id the create returned, or the write of a
\* confirmed "Create New Gist" recovery, which stores the empty id; every other
\* step leaves it as it was, and while an attempt that emptied it has no
\* successful run the stored id stays empty.
C35_StoredIdChangesTwoWays ==
  /\ [][cfgGistId' # cfgGistId =>
          \E a \in Attempts : StoredByCreate(a) \/ EmptiedByRecovery(a)]_vars
  /\ [](\A a \in OneAtATime :
          (att[a].clearWritten = Some(TRUE) /\ IsNone(att[a].result))
            => cfgGistId = Some(""))

C35_Witness ==
  \E a \in OneAtATime :
    /\ Ended(att[a])
    /\ att[a].clearWritten = Some(TRUE)
    /\ att[a].failureShown = 1
    /\ att[a].runs >= 2
    /\ \E c \in 1..Len(att[a].apiCalls) : att[a].apiCalls[c].op = "createGist"
    /\ cfgGistId = Some("")

\* the runs of attempt record r whose createGist call created a gist
CreateRuns(r) ==
  {i \in 1..Len(r.runLog) :
     /\ r.runLog[i].outcome = "ok"
     /\ r.runLog[i].apiCalls[Len(r.runLog[i].apiCalls)].op = "createGist"}

\* the gists the attempts created, one for each successful POST, and their ids
CreatedGists ==
  {d \in Attempts \X (1..3) : d[2] \in CreateRuns(att[d[1]])}

CreatedId(d) == att[d[1]].runLog[d[2]].fetched[1].outcome.id

\* gist id was given up by a confirmed "Create New Gist" recovery of some attempt
Abandoned(id) ==
  \E a \in Attempts :
    /\ att[a].clearWritten = Some(TRUE)
    /\ \E i \in 1..Len(att[a].runLog) :
         /\ att[a].runLog[i].outcome = "GistNotFoundError"
         /\ att[a].runLog[i].apiCalls[Len(att[a].runLog[i].apiCalls)].gistId = id

\* C36: with every configuration write succeeding, once no attempt is in flight
\* every gist created by a createGist call of the attempts is the one
\* gistSync.gistId names, unless a confirmed "Create New Gist" recovery gave it
\* up; as gistSync.gistId names one gist, two gists that were created and not
\* given up are never both left.
C36_NoOrphanedGist ==
  (\A a \in Attempts : ~InFlight(att[a])) =>
    /\ \A d \in CreatedGists :
         cfgGistId = Some(CreatedId(d)) \/ Abandoned(CreatedId(d))
    /\ \A d, e \in CreatedGists :
         d # e => (Abandoned(CreatedId(d)) \/ Abandoned(CreatedId(e)))

====
